---- MODULE Spec2Model ----
(***************************************************************************)
(* run_pty_shell (src/src/cli.rs) as a state machine: the launcher steps   *)
(* of the main thread, the output loop of the main thread, the input       *)
(* thread, and the environment they talk to (the child shell on the        *)
(* subordinate side of the PTY, the real input and output streams, the     *)
(* transcript file).                                                       *)
(*                                                                         *)
(* The program never looks at the value of a byte, so the k-th byte of a   *)
(* source stream is modelled as the number k: order, loss and duplication  *)
(* inside a direction are then visible in the sequences themselves.        *)
(***************************************************************************)
EXTENDS Integers, Sequences, FiniteSets, TLC

\* ---------------------------------------------------------------- bounds
\* Size of the two relay buffers ([0u8; 1024] in the source, scaled down).
BufSize == 2
\* Bytes the real input stream delivers in one session.
MaxIn == 2
\* Bytes the child shell writes to its terminal in one session.
MaxOut == 3
\* Bytes the PTY holds between the child's write and the parent's read.
PtyCap == 1

VARIABLES
    transcript_file_path,  \* KUBELINGO_TRANSCRIPT_FILE is set
    vim_log_path,          \* value of KUBELINGO_VIM_LOG: NoPath, or the path
    transcript,            \* content of the file at the transcript path
    rc_exists,             \* the temporary rcfile exists on disk
    rc_lines,              \* its lines
    slave,                 \* the parent holds pair.slave
    child,                 \* "none", "starting", "running", "writing", "exited"
    child_wrote,           \* bytes the child has written to the PTY so far
    pty_out,               \* child -> master bytes not yet read by `reader`
    main_pc,               \* position of the main thread in run_pty_shell
    input_pc,              \* position of the input thread
    stdin_read,            \* bytes stdin.read has returned
    in_buffer, in_n,       \* input thread: buffer and n of the last read
    pty_in,                \* bytes written to the PTY through `writer`
    in_w,                  \* bytes of the current chunk already written to the PTY
    pty_read,              \* bytes reader.read has returned
    out_buffer, out_n,     \* output loop: buffer and n of the last read
    stdout_buf,            \* bytes held by the Stdout handle, not yet delivered
    real_out,              \* bytes delivered to the real output stream
    in_t, out_t,           \* bytes of the current chunk already appended to the transcript
    in_stop, out_stop,     \* why each direction left its loop
    wait_result,           \* outcome of child.wait()
    result, cause,         \* how run_pty_shell ended, and the failing step
    read_live              \* bytes of stdin read while the child had not exited

vars == <<transcript_file_path, vim_log_path, transcript, rc_exists, rc_lines,
          slave, child, child_wrote, pty_out, main_pc, input_pc, stdin_read,
          in_buffer, in_n, pty_in, in_w, pty_read, out_buffer, out_n, stdout_buf,
          real_out, in_t, out_t, in_stop, out_stop, wait_result, result, cause,
          read_live>>

\* Variable groups, for UNCHANGED.
cfgVars == <<transcript_file_path, vim_log_path>>
rcVars == <<rc_exists, rc_lines>>
childVars == <<child, child_wrote, pty_out>>
inputVars == <<input_pc, stdin_read, in_buffer, in_n, pty_in, in_w, in_t, in_stop,
               read_live>>
outputVars == <<pty_read, out_buffer, out_n, stdout_buf, real_out, out_t, out_stop>>
endVars == <<wait_result, result, cause>>

\* --------------------------------------------------------------- helpers
Take(s, n) == SubSeq(s, 1, n)
Drop(s, n) == SubSeq(s, n + 1, Len(s))
\* The bytes number lo .. hi of a source stream.
Stream(lo, hi) == [i \in 1..(hi - lo + 1) |-> lo + i - 1]
\* read(&mut buffer) returning chunk: the chunk overwrites the head of the
\* buffer, the rest keeps what earlier reads left there.
ReadInto(buf, chunk) ==
    [i \in 1..BufSize |-> IF i <= Len(chunk) THEN chunk[i] ELSE buf[i]]
\* A chunk as it is appended to the transcript, marked with its direction.
Tagged(dir, s) == [i \in 1..Len(s) |-> <<dir, s[i]>>]

\* KUBELINGO_VIM_LOG is not set.
NoPath == << >>
\* Values of KUBELINGO_VIM_LOG, each as the words its blanks separate: a path
\* without a blank, and one with a blank in it.
LogPaths == {<<"log">>, <<"my", "log">>}
\* cli.rs 56: the line "alias vim='vim -W {}'" with the path put in as it is.
\* The shell splits the quoted text into words when it expands the alias.
AliasLine(log_path) == [name |-> "vim", words |-> <<"vim", "-W">> \o log_path]

\* The command names a script redefines.
Redefined(lines) == {lines[i].name : i \in 1..Len(lines)}
\* The file the redefined command logs to: the one word that follows -W.
LogTarget(line) == <<line.words[3]>>

\* cli.rs 54-58: the rcfile as the launcher leaves it: empty, or the alias line.
StartupScript == IF vim_log_path # NoPath THEN <<AliasLine(vim_log_path)>> ELSE << >>

\* The subordinate side is open in some process.
SlaveOpen == slave \/ child \in {"starting", "running", "writing"}
\* The process has not ended: the input thread dies with it.
Alive == main_pc # "exited"

Errs == {"read_err", "write_err"}

\* ------------------------------------------------------------------ Init
Init ==
    /\ transcript_file_path \in BOOLEAN
    /\ vim_log_path \in {NoPath} \cup LogPaths
    \* What the file at the transcript path holds before the launch (nothing,
    \* or a byte of an earlier session); without a path no file is looked at.
    /\ transcript \in (IF transcript_file_path THEN {<< >>, << <<"old", 0>> >>} ELSE {<< >>})
    /\ rc_exists = FALSE
    /\ rc_lines = << >>
    /\ slave = FALSE
    /\ child = "none"
    /\ child_wrote = 0
    /\ pty_out = << >>
    /\ main_pc = "create_transcript"
    /\ input_pc = "none"
    /\ stdin_read = << >>
    /\ in_buffer = [i \in 1..BufSize |-> 0]
    /\ in_n = 0
    /\ pty_in = << >>
    /\ in_w = 0
    /\ pty_read = << >>
    /\ out_buffer = [i \in 1..BufSize |-> 0]
    /\ out_n = 0
    /\ stdout_buf = << >>
    /\ real_out = << >>
    /\ in_t = 0
    /\ out_t = 0
    /\ in_stop = "none"
    /\ out_stop = "none"
    /\ wait_result = "none"
    /\ result = "none"
    /\ cause = "none"
    /\ read_live = 0

\* -------------------------------------------------------------- launcher
\* `?` on a failed step: run_pty_shell returns Err, its locals are dropped
\* (the NamedTempFile removes the rcfile, the PTY pair is closed) and main
\* returns the error, which ends the process.
ReturnErr(why) ==
    /\ main_pc' = "exited"
    /\ result' = "Err"
    /\ cause' = why
    /\ rc_exists' = FALSE
    /\ slave' = FALSE

\* A panic on the main thread (expect / unwrap): the process ends; whether
\* the locals are dropped depends on the build's panic strategy.
Panic(why) ==
    /\ main_pc' = "exited"
    /\ result' = "panic"
    /\ cause' = why
    /\ rc_exists' \in (IF rc_exists THEN BOOLEAN ELSE {FALSE})
    /\ slave' = FALSE

\* cli.rs 47-51: File::create on the transcript path truncates the file.
CreateTranscriptOk ==
    /\ main_pc = "create_transcript"
    /\ main_pc' = "new_rcfile"
    /\ transcript' = IF transcript_file_path THEN << >> ELSE transcript
    /\ UNCHANGED <<cfgVars, rcVars, slave, childVars, inputVars, outputVars, endVars>>

CreateTranscriptPanic ==
    /\ main_pc = "create_transcript"
    /\ transcript_file_path
    /\ Panic("create_transcript")
    /\ UNCHANGED <<cfgVars, transcript, rc_lines, childVars, inputVars, outputVars,
                   wait_result>>

\* cli.rs 54: NamedTempFile::new()
NewRcFileOk ==
    /\ main_pc = "new_rcfile"
    /\ rc_exists' = TRUE
    /\ rc_lines' = << >>
    /\ main_pc' = "write_alias"
    /\ UNCHANGED <<cfgVars, transcript, slave, childVars, inputVars, outputVars, endVars>>

NewRcFileErr ==
    /\ main_pc = "new_rcfile"
    /\ ReturnErr("new_rcfile")
    /\ UNCHANGED <<cfgVars, transcript, rc_lines, childVars, inputVars, outputVars,
                   wait_result>>

\* Mutant of WriteAliasOk: the launch goes on without the line being written.
WriteAliasSkipped ==
    /\ main_pc = "write_alias"
    /\ main_pc' = "openpty"
    /\ UNCHANGED <<cfgVars, transcript, rcVars, slave, childVars, inputVars, outputVars,
                   endVars>>

\* cli.rs 55-58: the alias line, only with a command-log path.
WriteAliasOk ==
    /\ main_pc = "write_alias"
    /\ rc_lines' = IF vim_log_path # NoPath THEN rc_lines \o <<AliasLine(vim_log_path)>> ELSE rc_lines
    /\ main_pc' = "openpty"
    /\ UNCHANGED <<cfgVars, transcript, rc_exists, slave, childVars, inputVars,
                   outputVars, endVars>>

WriteAliasErr ==
    /\ main_pc = "write_alias"
    /\ vim_log_path # NoPath
    /\ ReturnErr("write_alias")
    /\ UNCHANGED <<cfgVars, transcript, rc_lines, childVars, inputVars, outputVars,
                   wait_result>>

\* cli.rs 60-63: openpty; the parent holds both sides of the pair.
OpenPtyOk ==
    /\ main_pc = "openpty"
    /\ slave' = TRUE
    /\ main_pc' = "spawn"
    /\ UNCHANGED <<cfgVars, transcript, rcVars, childVars, inputVars, outputVars, endVars>>

\* Mutant of OpenPtyErr: the failure is noted but the launch goes on.
OpenPtyErrIgnored ==
    /\ main_pc = "openpty"
    /\ cause' = "openpty"
    /\ slave' = TRUE
    /\ main_pc' = "spawn"
    /\ UNCHANGED <<cfgVars, transcript, rcVars, childVars, inputVars, outputVars,
                   wait_result, result>>

OpenPtyErr ==
    /\ main_pc = "openpty"
    /\ ReturnErr("openpty")
    /\ UNCHANGED <<cfgVars, transcript, rc_lines, childVars, inputVars, outputVars,
                   wait_result>>

\* cli.rs 65-70: spawn bash --rcfile <rc_file> on the subordinate side;
\* spawn_command returns when the child process exists, before the shell has
\* read its rcfile.
SpawnOk ==
    /\ main_pc = "spawn"
    /\ child' = "starting"
    /\ main_pc' = "drop_slave"
    /\ UNCHANGED <<cfgVars, transcript, rcVars, slave, child_wrote, pty_out, inputVars,
                   outputVars, endVars>>

SpawnErr ==
    /\ main_pc = "spawn"
    /\ ReturnErr("spawn")
    /\ UNCHANGED <<cfgVars, transcript, rc_lines, childVars, inputVars, outputVars,
                   wait_result>>

\* Mutant of DropSlave: the parent keeps the subordinate side.
DropSlaveKept ==
    /\ main_pc = "drop_slave"
    /\ main_pc' = "clone_reader"
    /\ UNCHANGED <<cfgVars, transcript, rcVars, slave, childVars, inputVars, outputVars,
                   endVars>>

\* cli.rs 71: drop(pair.slave)
DropSlave ==
    /\ main_pc = "drop_slave"
    /\ slave' = FALSE
    /\ main_pc' = "clone_reader"
    /\ UNCHANGED <<cfgVars, transcript, rcVars, childVars, inputVars, outputVars, endVars>>

\* cli.rs 73: try_clone_reader
CloneReaderOk ==
    /\ main_pc = "clone_reader"
    /\ main_pc' = "take_writer"
    /\ UNCHANGED <<cfgVars, transcript, rcVars, slave, childVars, inputVars, outputVars,
                   endVars>>

CloneReaderErr ==
    /\ main_pc = "clone_reader"
    /\ ReturnErr("clone_reader")
    /\ UNCHANGED <<cfgVars, transcript, rc_lines, childVars, inputVars, outputVars,
                   wait_result>>

\* cli.rs 74: take_writer
TakeWriterOk ==
    /\ main_pc = "take_writer"
    /\ main_pc' = "clone_transcript"
    /\ UNCHANGED <<cfgVars, transcript, rcVars, slave, childVars, inputVars, outputVars,
                   endVars>>

TakeWriterErr ==
    /\ main_pc = "take_writer"
    /\ ReturnErr("take_writer")
    /\ UNCHANGED <<cfgVars, transcript, rc_lines, childVars, inputVars, outputVars,
                   wait_result>>

\* cli.rs 76: the second handle on the transcript file, for the input thread.
CloneTranscriptOk ==
    /\ main_pc = "clone_transcript"
    /\ main_pc' = "spawn_thread"
    /\ UNCHANGED <<cfgVars, transcript, rcVars, slave, childVars, inputVars, outputVars,
                   endVars>>

CloneTranscriptPanic ==
    /\ main_pc = "clone_transcript"
    /\ transcript_file_path
    /\ Panic("clone_transcript")
    /\ UNCHANGED <<cfgVars, transcript, rc_lines, childVars, inputVars, outputVars,
                   wait_result>>

\* cli.rs 79: std::thread::spawn; the main thread goes on to its own loop.
SpawnThread ==
    /\ main_pc = "spawn_thread"
    /\ input_pc' = "read"
    /\ main_pc' = "out_read"
    /\ UNCHANGED <<cfgVars, transcript, rcVars, slave, childVars, stdin_read, in_buffer,
                   in_n, pty_in, in_w, in_t, in_stop, read_live, outputVars, endVars>>

\* ---------------------------------------------------------- input thread
\* data = &buffer[..n] of the input thread.
InData == Take(in_buffer, in_n)

\* cli.rs 83, 85-86: stdin.read returns Ok(n), n > 0, with the next n bytes.
InRead(n) ==
    /\ input_pc = "read"
    /\ Alive
    /\ Len(stdin_read) + n <= MaxIn
    /\ LET chunk == Stream(Len(stdin_read) + 1, Len(stdin_read) + n)
       IN /\ stdin_read' = stdin_read \o chunk
          /\ in_buffer' = ReadInto(in_buffer, chunk)
          /\ in_n' = n
          /\ read_live' = IF child # "exited" THEN Len(stdin_read) + n ELSE read_live
    /\ input_pc' = "write"
    /\ UNCHANGED <<cfgVars, transcript, rcVars, slave, childVars, main_pc, pty_in, in_w, in_t,
                   in_stop, outputVars, endVars>>

\* cli.rs 84: Ok(0) => break
InReadEof ==
    /\ input_pc = "read"
    /\ Alive
    /\ input_pc' = "done"
    /\ in_stop' = "eof"
    /\ UNCHANGED <<cfgVars, transcript, rcVars, slave, childVars, main_pc, stdin_read,
                   in_buffer, in_n, pty_in, in_w, in_t, read_live, outputVars, endVars>>

\* cli.rs 92: Err(_) => break
InReadErr ==
    /\ input_pc = "read"
    /\ Alive
    /\ input_pc' = "done"
    /\ in_stop' = "read_err"
    /\ UNCHANGED <<cfgVars, transcript, rcVars, slave, childVars, main_pc, stdin_read,
                   in_buffer, in_n, pty_in, in_w, in_t, read_live, outputVars, endVars>>

\* Mutant of InWrite: a single write call, not write_all; what the call did
\* not take is never written.
InWriteOnce(k) ==
    /\ input_pc = "write"
    /\ Alive
    /\ SlaveOpen
    /\ k <= in_n - in_w
    /\ pty_in' = pty_in \o SubSeq(InData, in_w + 1, in_w + k)
    /\ input_pc' = IF transcript_file_path THEN "transcript" ELSE "read"
    /\ in_w' = 0
    /\ UNCHANGED <<cfgVars, transcript, rcVars, slave, childVars, main_pc, stdin_read,
                   in_buffer, in_n, in_t, in_stop, read_live, outputVars, endVars>>

\* cli.rs 87-88: writer.write_all(data), one write call of the loop inside
\* write_all: while the subordinate side is open the PTY takes the next k bytes
\* of the chunk; write_all returns Ok when the whole chunk is out, and the
\* transcript append follows only with a transcript configured.
InWrite(k) ==
    /\ input_pc = "write"
    /\ Alive
    /\ SlaveOpen
    /\ k <= in_n - in_w
    /\ pty_in' = pty_in \o SubSeq(InData, in_w + 1, in_w + k)
    /\ IF in_w + k = in_n
       THEN /\ input_pc' = IF transcript_file_path THEN "transcript" ELSE "read"
            /\ in_w' = 0
       ELSE /\ input_pc' = input_pc
            /\ in_w' = in_w + k
    /\ UNCHANGED <<cfgVars, transcript, rcVars, slave, childVars, main_pc, stdin_read,
                   in_buffer, in_n, in_t, in_stop, read_live, outputVars, endVars>>

\* cli.rs 87: a write call of write_all fails once no process holds the
\* subordinate side: `break`; what is left of the chunk is not forwarded and
\* the chunk is not appended to the transcript.
InWriteErr ==
    /\ input_pc = "write"
    /\ Alive
    /\ ~SlaveOpen
    /\ input_pc' = "done"
    /\ in_stop' = "write_err"
    /\ UNCHANGED <<cfgVars, transcript, rcVars, slave, childVars, main_pc, stdin_read,
                   in_buffer, in_n, pty_in, in_w, in_t, read_live, outputVars, endVars>>

\* cli.rs 89: transcript.write_all(data), one write call of the loop inside
\* write_all: it appends the next k bytes of the chunk at the shared file
\* offset; write_all returns when the whole chunk is out.
InTranscript(k) ==
    /\ input_pc = "transcript"
    /\ Alive
    /\ k <= in_n - in_t
    /\ transcript' = transcript \o Tagged("in", SubSeq(InData, in_t + 1, in_t + k))
    /\ IF in_t + k = in_n
       THEN input_pc' = "read" /\ in_t' = 0
       ELSE input_pc' = input_pc /\ in_t' = in_t + k
    /\ UNCHANGED <<cfgVars, rcVars, slave, childVars, main_pc, stdin_read, in_buffer,
                   in_n, pty_in, in_w, in_stop, read_live, outputVars, endVars>>

\* cli.rs 89: a write call fails; `let _ =` drops the error and the loop goes on.
InTranscriptErr ==
    /\ input_pc = "transcript"
    /\ Alive
    /\ input_pc' = "read"
    /\ in_t' = 0
    /\ UNCHANGED <<cfgVars, transcript, rcVars, slave, childVars, main_pc, stdin_read,
                   in_buffer, in_n, pty_in, in_w, in_stop, read_live, outputVars, endVars>>

\* ----------------------------------------------------------- output loop
\* Mutant of OutData: the whole buffer is forwarded, not its first n bytes.
OutDataWhole == out_buffer

\* data = &buffer[..n] of the output loop.
OutData == Take(out_buffer, out_n)

\* cli.rs 101, 103-104: reader.read returns Ok(n), n > 0, with buffered bytes.
OutRead(n) ==
    /\ main_pc = "out_read"
    /\ n <= Len(pty_out)
    /\ pty_read' = pty_read \o Take(pty_out, n)
    /\ out_buffer' = ReadInto(out_buffer, Take(pty_out, n))
    /\ out_n' = n
    /\ pty_out' = Drop(pty_out, n)
    /\ main_pc' = "out_write"
    /\ UNCHANGED <<cfgVars, transcript, rcVars, slave, child, child_wrote, inputVars,
                   stdout_buf, real_out, out_t, out_stop, endVars>>

\* Mutant of OutReadEof: the loop's end goes to the join, past child.wait().
OutReadEofJoinFirst ==
    /\ main_pc = "out_read"
    /\ pty_out = << >>
    /\ ~SlaveOpen
    /\ main_pc' = "join"
    /\ out_stop' = "eof"
    /\ UNCHANGED <<cfgVars, transcript, rcVars, slave, childVars, inputVars, pty_read,
                   out_buffer, out_n, stdout_buf, real_out, out_t, endVars>>

\* cli.rs 102: Ok(0) => break. The controlling side reports end-of-stream only
\* when nothing is buffered and no process holds the subordinate side.
OutReadEof ==
    /\ main_pc = "out_read"
    /\ pty_out = << >>
    /\ ~SlaveOpen
    /\ main_pc' = "wait"
    /\ out_stop' = "eof"
    /\ UNCHANGED <<cfgVars, transcript, rcVars, slave, childVars, inputVars, pty_read,
                   out_buffer, out_n, stdout_buf, real_out, out_t, endVars>>

\* cli.rs 111: Err(_) => break (the same condition, reported as an error).
OutReadErr ==
    /\ main_pc = "out_read"
    /\ pty_out = << >>
    /\ ~SlaveOpen
    /\ main_pc' = "wait"
    /\ out_stop' = "read_err"
    /\ UNCHANGED <<cfgVars, transcript, rcVars, slave, childVars, inputVars, pty_read,
                   out_buffer, out_n, stdout_buf, real_out, out_t, endVars>>

\* cli.rs 105: stdout.write_all(data) succeeds: the Stdout handle holds the chunk.
OutWriteOk ==
    /\ main_pc = "out_write"
    /\ stdout_buf' = stdout_buf \o OutData
    /\ main_pc' = "out_flush"
    /\ UNCHANGED <<cfgVars, transcript, rcVars, slave, childVars, inputVars, pty_read,
                   out_buffer, out_n, real_out, out_t, out_stop, endVars>>

\* Mutant of OutWriteErr: the failing output direction also ends the input thread.
OutWriteErrStopsInput(k) ==
    /\ main_pc = "out_write"
    /\ k < Len(stdout_buf \o OutData)
    /\ real_out' = real_out \o Take(stdout_buf \o OutData, k)
    /\ stdout_buf' = Drop(stdout_buf, IF k <= Len(stdout_buf) THEN k ELSE Len(stdout_buf))
    /\ main_pc' = "wait"
    /\ out_stop' = "write_err"
    /\ input_pc' = "done"
    /\ UNCHANGED <<cfgVars, transcript, rcVars, slave, childVars, stdin_read, in_buffer,
                   in_n, pty_in, in_w, in_t, in_stop, read_live, pty_read, out_buffer, out_n,
                   out_t, endVars>>

\* cli.rs 105: stdout.write_all(data) fails after k of the held bytes reached
\* the real output: `break`. The handle keeps what it held from earlier chunks
\* and did not deliver; the rest of the failing chunk is lost.
OutWriteErr(k) ==
    /\ main_pc = "out_write"
    /\ k < Len(stdout_buf \o OutData)
    /\ real_out' = real_out \o Take(stdout_buf \o OutData, k)
    /\ stdout_buf' = Drop(stdout_buf, IF k <= Len(stdout_buf) THEN k ELSE Len(stdout_buf))
    /\ main_pc' = "wait"
    /\ out_stop' = "write_err"
    /\ UNCHANGED <<cfgVars, transcript, rcVars, slave, childVars, inputVars, pty_read,
                   out_buffer, out_n, out_t, endVars>>

\* cli.rs 106-107: stdout.flush() delivers everything the handle holds.
OutFlushOk ==
    /\ main_pc = "out_flush"
    /\ real_out' = real_out \o stdout_buf
    /\ stdout_buf' = << >>
    /\ main_pc' = IF transcript_file_path THEN "out_transcript" ELSE "out_read"
    /\ UNCHANGED <<cfgVars, transcript, rcVars, slave, childVars, inputVars, pty_read,
                   out_buffer, out_n, out_t, out_stop, endVars>>

\* cli.rs 106-107: stdout.flush() fails after k bytes; `let _ =` drops the
\* error, the handle keeps the rest and the loop goes on.
OutFlushErr(k) ==
    /\ main_pc = "out_flush"
    /\ k < Len(stdout_buf)
    /\ real_out' = real_out \o Take(stdout_buf, k)
    /\ stdout_buf' = Drop(stdout_buf, k)
    /\ main_pc' = IF transcript_file_path THEN "out_transcript" ELSE "out_read"
    /\ UNCHANGED <<cfgVars, transcript, rcVars, slave, childVars, inputVars, pty_read,
                   out_buffer, out_n, out_t, out_stop, endVars>>

\* cli.rs 108: transcript.write_all(data), one write call of its loop.
OutTranscript(k) ==
    /\ main_pc = "out_transcript"
    /\ k <= out_n - out_t
    /\ transcript' = transcript \o Tagged("out", SubSeq(OutData, out_t + 1, out_t + k))
    /\ IF out_t + k = out_n
       THEN main_pc' = "out_read" /\ out_t' = 0
       ELSE main_pc' = main_pc /\ out_t' = out_t + k
    /\ UNCHANGED <<cfgVars, rcVars, slave, childVars, inputVars, pty_read, out_buffer,
                   out_n, stdout_buf, real_out, out_stop, endVars>>

\* cli.rs 108: a write call fails; the error is dropped and the loop goes on.
OutTranscriptErr ==
    /\ main_pc = "out_transcript"
    /\ main_pc' = "out_read"
    /\ out_t' = 0
    /\ UNCHANGED <<cfgVars, transcript, rcVars, slave, childVars, inputVars, pty_read,
                   out_buffer, out_n, stdout_buf, real_out, out_stop, endVars>>

\* -------------------------------------------------------------- teardown
\* cli.rs 115: child.wait() returns the status once the child has exited.
ChildWaitOk ==
    /\ main_pc = "wait"
    /\ child = "exited"
    /\ wait_result' = "Ok"
    /\ main_pc' = "join"
    /\ UNCHANGED <<cfgVars, transcript, rcVars, slave, childVars, inputVars, outputVars,
                   result, cause>>

\* cli.rs 115: child.wait() fails; `?` returns the error and skips the join.
ChildWaitErr ==
    /\ main_pc = "wait"
    /\ wait_result' = "Err"
    /\ ReturnErr("wait")
    /\ UNCHANGED <<cfgVars, transcript, rc_lines, childVars, inputVars, outputVars>>

\* Mutant of Join: an I/O error of a relay direction becomes the result.
JoinPropagates ==
    /\ main_pc = "join"
    /\ input_pc = "done"
    /\ main_pc' = "exited"
    /\ result' = IF in_stop \in Errs \/ out_stop \in Errs THEN "Err" ELSE "Ok"
    /\ rc_exists' = FALSE
    /\ UNCHANGED <<cfgVars, transcript, rc_lines, slave, childVars, inputVars, outputVars,
                   wait_result, cause>>

\* cli.rs 116-117: input_thread.join() returns once the input thread has left
\* its loop; run_pty_shell returns Ok(()) and its locals are dropped.
Join ==
    /\ main_pc = "join"
    /\ input_pc = "done"
    /\ main_pc' = "exited"
    /\ result' = "Ok"
    /\ rc_exists' = FALSE
    /\ UNCHANGED <<cfgVars, transcript, rc_lines, slave, childVars, inputVars, outputVars,
                   wait_result, cause>>

\* ----------------------------------------------------------------- child
\* The shell (with its descendants) on the subordinate side, cli.rs 65-70: it
\* starts by reading the file named by --rcfile, ...
ChildStart ==
    /\ child = "starting"
    /\ Alive
    /\ child' = "running"
    /\ UNCHANGED <<cfgVars, transcript, rcVars, slave, child_wrote, pty_out, main_pc,
                   inputVars, outputVars, endVars>>

\* ... enters a write to its terminal, ...
ChildStartWrite ==
    /\ child = "running"
    /\ Alive
    /\ child_wrote < MaxOut
    /\ child' = "writing"
    /\ UNCHANGED <<cfgVars, transcript, rcVars, slave, child_wrote, pty_out, main_pc,
                   inputVars, outputVars, endVars>>

\* ... the write completes when the PTY has room for the byte, ...
ChildWrite ==
    /\ child = "writing"
    /\ Alive
    /\ Len(pty_out) < PtyCap
    /\ pty_out' = Append(pty_out, child_wrote + 1)
    /\ child_wrote' = child_wrote + 1
    /\ child' = "running"
    /\ UNCHANGED <<cfgVars, transcript, rcVars, slave, main_pc, inputVars, outputVars,
                   endVars>>

\* Mutant of ChildExit: the exit of the child ends the input loop.
ChildExitStopsInput ==
    /\ child = "running"
    /\ Alive
    /\ child' = "exited"
    /\ input_pc' = IF input_pc \in {"read", "write", "transcript"} THEN "done" ELSE input_pc
    /\ UNCHANGED <<cfgVars, transcript, rcVars, slave, child_wrote, pty_out, main_pc,
                   stdin_read, in_buffer, in_n, pty_in, in_w, in_t, in_stop, read_live,
                   outputVars, endVars>>

\* ... and it exits when it is not inside a write.
ChildExit ==
    /\ child = "running"
    /\ Alive
    /\ child' = "exited"
    /\ UNCHANGED <<cfgVars, transcript, rcVars, slave, child_wrote, pty_out, main_pc,
                   inputVars, outputVars, endVars>>

\* --------------------------------------------------------- specification
Launcher ==
    \/ CreateTranscriptOk \/ CreateTranscriptPanic
    \/ NewRcFileOk \/ NewRcFileErr
    \/ WriteAliasOk \/ WriteAliasErr
    \/ OpenPtyOk \/ OpenPtyErr
    \/ SpawnOk \/ SpawnErr
    \/ DropSlave
    \/ CloneReaderOk \/ CloneReaderErr
    \/ TakeWriterOk \/ TakeWriterErr
    \/ CloneTranscriptOk \/ CloneTranscriptPanic
    \/ SpawnThread

InputRead == (\E n \in 1..BufSize : InRead(n)) \/ InReadEof \/ InReadErr
InputForward ==
    \/ (\E k \in 1..BufSize : InWrite(k)) \/ InWriteErr
    \/ (\E k \in 1..BufSize : InTranscript(k)) \/ InTranscriptErr

OutputLoop ==
    \/ (\E n \in 1..BufSize : OutRead(n)) \/ OutReadEof \/ OutReadErr
    \/ OutWriteOk \/ (\E k \in 0..(MaxOut - 1) : OutWriteErr(k))
    \/ OutFlushOk \/ (\E k \in 0..(MaxOut - 1) : OutFlushErr(k))
    \/ (\E k \in 1..BufSize : OutTranscript(k)) \/ OutTranscriptErr

Teardown == ChildWaitOk \/ ChildWaitErr \/ Join

Child == ChildStart \/ ChildStartWrite \/ ChildWrite \/ ChildExit

Next == Launcher \/ InputRead \/ InputForward \/ OutputLoop \/ Teardown \/ Child

Spec == Init /\ [][Next]_vars

\* The scheduler runs every thread that can take a step, and a call that can
\* return does return. No fairness on InputRead (the user may never type) nor
\* on Child (the shell may run for ever).
FairSpec ==
    /\ Spec
    /\ WF_vars(Launcher)
    /\ WF_vars(InputForward)
    /\ WF_vars(OutputLoop)
    /\ WF_vars(Teardown)

\* ---------------------------------------------------------------- claims
\* Notions the claims are stated with.
IsPrefix(a, b) == Len(a) <= Len(b) /\ Take(b, Len(a)) = a
Range(s) == {s[i] : i \in 1..Len(s)}
Bytes(t) == [i \in 1..Len(t) |-> t[i][2]]
\* The bytes of one direction in the transcript, in file order.
OfDir(dir, t) == SelectSeq(t, LAMBDA e : e[1] = dir)
RelayPcs == {"out_read", "out_write", "out_flush", "out_transcript"}
InputPcs == {"read", "write", "transcript"}
TranscriptOut == Bytes(OfDir("out", transcript))
TranscriptIn == Bytes(OfDir("in", transcript))

\* C1: with a transcript configured, when the session has ended (run_pty_shell
\* has returned Ok, both directions have stopped) the transcript holds as many
\* bytes as were delivered to the real output plus as were read from the real
\* input.
C1_TranscriptComplete ==
    (transcript_file_path /\ main_pc = "exited" /\ result = "Ok")
        => Len(transcript) = Len(real_out) + Len(stdin_read)

\* C2: with a transcript configured, in every state each byte delivered to the
\* real output, and each byte of the real input delivered to the PTY, is in
\* the transcript already.
C2_TranscriptBeforeDelivery ==
    (transcript_file_path /\ input_pc # "none")
        => /\ Range(real_out) \subseteq Range(TranscriptOut)
           /\ Range(pty_in) \subseteq Range(TranscriptIn)

\* C3: in every state the bytes delivered to the real output are a prefix of
\* the bytes read from the PTY, and the bytes written to the PTY are a prefix
\* of the bytes read from the real input.
C3_PerDirectionOrder ==
    /\ IsPrefix(real_out, pty_read)
    /\ IsPrefix(pty_in, stdin_read)

\* Both directions have relayed two chunks of one byte each.
C3_Witness ==
    /\ real_out = <<1, 2>> /\ out_n = 1
    /\ pty_in = <<1, 2>> /\ in_n = 1

C5_JoinBestEffort == (main_pc = "join") ~> (main_pc = "exited")

\* C6: when creating or writing the start-up script, or allocating the PTY,
\* fails, run_pty_shell has returned an error, no child was spawned and the
\* input thread was not started.
C6_PreSpawnAbort ==
    cause \in {"new_rcfile", "write_alias", "openpty"}
        => /\ main_pc = "exited"
           /\ result = "Err"
           /\ child = "none"
           /\ input_pc = "none"

\* The alias line was written and the PTY allocation failed.
C6_Witness ==
    /\ cause = "openpty"
    /\ rc_lines # << >>
    /\ main_pc = "exited"

\* C7: the parent holds the subordinate side only between the spawn and the
\* drop that follows it, never while a relay direction runs; so when the child
\* has exited and the PTY is drained, the read of the controlling side can
\* return (end-of-stream or error).
C7_SlaveReleased ==
    /\ (child # "none" /\ slave) => main_pc = "drop_slave"
    /\ (input_pc \in InputPcs \/ main_pc \in RelayPcs) => ~slave
    /\ (main_pc = "out_read" /\ child = "exited" /\ pty_out = << >>)
          => ENABLED (OutReadEof \/ OutReadErr)

\* The output loop is at its read, the child has exited after producing
\* output, and everything it wrote has been read.
C7_Witness ==
    /\ main_pc = "out_read"
    /\ child = "exited"
    /\ pty_out = << >>
    /\ pty_read # << >>

\* C8: the step at which one direction stops on an I/O error leaves the other
\* direction where it was, and while the process lives a stopped direction
\* never keeps the other one from its next step.
C8_DirectionIsolation ==
    [][ /\ (out_stop # out_stop' /\ out_stop' \in Errs)
            => (input_pc' = input_pc /\ in_stop' = in_stop)
        /\ (in_stop # in_stop' /\ in_stop' \in Errs)
            => (main_pc' = main_pc /\ out_stop' = out_stop)
        /\ (out_stop' \in Errs /\ Alive')
            => /\ input_pc' = "write" => (ENABLED (InWrite(1) \/ InWriteErr))'
               /\ input_pc' = "transcript" => (ENABLED InTranscript(1))'
               /\ input_pc' = "read" => (ENABLED InReadEof)'
        /\ (in_stop' \in Errs)
            => /\ main_pc' = "out_write" => (ENABLED OutWriteOk)'
               /\ main_pc' = "out_flush" => (ENABLED OutFlushOk)'
               /\ main_pc' = "out_transcript" => (ENABLED OutTranscript(1))'
      ]_vars

\* The output direction stopped on a write error before delivering anything,
\* the input direction has forwarded a chunk and holds the next one.
C8_Witness ==
    /\ out_stop = "write_err"
    /\ real_out = << >>
    /\ main_pc = "wait"
    /\ input_pc = "write"
    /\ pty_in # << >>

\* C9: when run_pty_shell has returned and child.wait() had delivered the
\* exit status, the result is Ok, whatever stopped either direction.
C9_OverallResult ==
    (main_pc = "exited" /\ wait_result = "Ok") => result = "Ok"

\* Both directions stopped on an I/O error and the session still ended Ok.
C9_Witness ==
    /\ main_pc = "exited"
    /\ wait_result = "Ok"
    /\ out_stop = "write_err"
    /\ in_stop \in Errs

\* C10: a failed child.wait() does not end the process with an error and does
\* not skip the join of the input thread.
C10_WaitErrorNonFatal ==
    wait_result = "Err"
        => /\ result # "Err"
           /\ main_pc = "exited" => input_pc = "done"

\* C11: the main thread is at child.wait() only after the output loop has
\* ended (zero-length read or I/O error); it is at the join of the input
\* thread only after child.wait() has returned the status of the exited
\* child; and run_pty_shell returns Ok only after both.
C11_TeardownOrder ==
    /\ main_pc = "wait" => (out_stop # "none" /\ wait_result = "none")
    /\ wait_result # "none" => out_stop # "none"
    /\ main_pc = "join" => (wait_result = "Ok" /\ child = "exited")
    /\ result = "Ok" => (wait_result = "Ok" /\ input_pc = "done")

\* The main thread is at the join, the child has been waited on, and the
\* input thread is still in its loop.
C11_Witness ==
    /\ main_pc = "join"
    /\ out_stop = "eof"
    /\ wait_result = "Ok"
    /\ input_pc \in InputPcs

\* The last n entries of the transcript.
LastOf(t, n) == SubSeq(t, Len(t) - n + 1, Len(t))

\* C12: the two directions are never inside a transcript write at the same
\* time, and the part of a chunk a direction has appended so far is the end of
\* the transcript (no byte of the other direction lies inside a chunk).
C12_TranscriptSerialized ==
    /\ ~(input_pc = "transcript" /\ main_pc = "out_transcript")
    /\ in_t > 0 => (in_t <= Len(transcript)
                      /\ LastOf(transcript, in_t) = Tagged("in", Take(InData, in_t)))
    /\ out_t > 0 => (out_t <= Len(transcript)
                       /\ LastOf(transcript, out_t) = Tagged("out", Take(OutData, out_t)))

\* C13: while the main thread waits in child.wait() and the child is inside a
\* write to the PTY, that write can complete (the child is not blocked on a
\* full PTY that nothing reads), so the child can still reach its exit.
C13_NoDeadlock ==
    (main_pc = "wait" /\ child = "writing") => ENABLED ChildWrite

\* C14: from the spawn of the child until run_pty_shell has returned, the
\* rcfile exists and holds what the launcher wrote before the spawn (the alias
\* line with a command-log path, nothing without one), and no step after the
\* spawn changes its lines.
C14_ScriptFrozenAtSpawn ==
    [][ /\ (child' # "none" /\ Alive') => (rc_exists' /\ rc_lines' = StartupScript)
        /\ child # "none" => rc_lines' = rc_lines
      ]_vars

\* The relay runs, the shell has started from an rcfile holding the alias line.
C14_Witness ==
    /\ child = "running"
    /\ main_pc \in RelayPcs
    /\ rc_exists
    /\ rc_lines # << >>

\* C15: no step removes or changes a byte the transcript file holds; every
\* step leaves the file as it was or appends to it, so what the file held
\* before the launch stays a prefix of it.
C15_TranscriptAppendOnly == [][IsPrefix(transcript, transcript')]_vars

\* C16: the rcfile the shell starts from redefines a command exactly when a
\* command-log path is configured; it then redefines vim and nothing else, and
\* the redefined vim logs to the configured path.
C16_WrappedCommandOnly ==
    child # "none"
        => /\ (Redefined(rc_lines) # {}) <=> (vim_log_path # NoPath)
           /\ Redefined(rc_lines) \subseteq {"vim"}
           /\ \A i \in 1..Len(rc_lines) : LogTarget(rc_lines[i]) = vim_log_path

\* C17: the input loop ends only in a step of the input thread itself: at its
\* read, on end-of-stream or a read error of the real input, or at its write
\* to the PTY, on a write error. A step that ends the output loop or in which
\* the child exits leaves the input thread where it was. However the input
\* loop ended, no step makes a panic of it, and the join returns Ok.
C17_InputStops ==
    [][ /\ (input_pc # "done" /\ input_pc' = "done")
            => /\ in_stop = "none"
               /\ \/ input_pc = "read" /\ in_stop' \in {"eof", "read_err"}
                  \/ input_pc = "write" /\ in_stop' = "write_err"
               /\ main_pc' = main_pc /\ out_stop' = out_stop /\ child' = child
               /\ result' = result
        /\ (out_stop' # out_stop \/ child' # child)
            => (input_pc' = input_pc /\ in_stop' = in_stop)
        /\ (result' # result /\ input_pc # "none") => result' # "panic"
        /\ (main_pc = "join" /\ main_pc' # main_pc)
            => (input_pc = "done" /\ in_stop # "none" /\ result' = "Ok")
      ]_vars

\* The output loop ended on end-of-stream, the input loop on a failed write to
\* the PTY, and run_pty_shell has returned Ok.
C17_Witness ==
    /\ main_pc = "exited"
    /\ result = "Ok"
    /\ out_stop = "eof"
    /\ in_stop = "write_err"

\* C18: a direction holds one chunk of at most BufSize bytes; when the input
\* thread is at its read, everything it read before is on the PTY and no
\* transcript write is in progress; when the output loop is at its read,
\* everything it read before has reached the real output, the Stdout handle
\* holds nothing, and no transcript write is in progress.
C18_BoundedChunking ==
    /\ in_n <= BufSize /\ out_n <= BufSize
    /\ input_pc = "read" => (pty_in = stdin_read /\ in_w = 0 /\ in_t = 0)
    /\ main_pc = "out_read"
          => (real_out = pty_read /\ stdout_buf = << >> /\ out_t = 0)

\* C19: once run_pty_shell has returned (Ok or Err) the rcfile does not exist;
\* and as long as the child has not read it (the shell is still starting) the
\* rcfile exists.
C19_ScriptLifetime ==
    /\ (main_pc = "exited" /\ result \in {"Ok", "Err"}) => ~rc_exists
    /\ child = "starting" => rc_exists

\* C20: every byte in the transcript was delivered live: an output byte is in
\* the transcript only if it has reached the real output, an input byte only
\* if it was written to the PTY; and the chunk whose forwarding write failed
\* is not in the transcript.
C20_TranscriptOnlyDelivered ==
    /\ Range(TranscriptOut) \subseteq Range(real_out)
    /\ Range(TranscriptIn) \subseteq Range(pty_in)
    /\ in_stop = "write_err" => Range(InData) \cap Range(TranscriptIn) = {}
    /\ out_stop = "write_err" => Range(OutData) \cap Range(TranscriptOut) = {}

====
